---- MODULE Spec2Model ----
(***************************************************************************)
(* LumiConnect (src/main.c): hardware bring-up, the start of the MQTT      *)
(* client, the startup grace loop and the read/publish/reconnect loop of   *)
(* main(), as a state machine with one action per step of main().          *)
(*                                                                         *)
(* The collaborators main() calls (the cyw43 radio, the BH1750 driver, the *)
(* MQTT client of mqtt_lwip.h, the USB console) are the environment: their *)
(* results are drawn from small sets, and the MQTT session changes state   *)
(* between any two steps of main().                                        *)
(***************************************************************************)
EXTENDS Integers, Sequences, FiniteSets, TLC

VARIABLES
    pc,              \* position of main()
    status,          \* value returned by main(), meaningful when pc = "exit"
    i,               \* counter of the grace loop (line 73)
    usbAttached,     \* console endpoint (stdio_usb_connected)
    mqtt,            \* session state of the MQTT client
    handshake,       \* progress of the handshake of a Connecting session
    lux,             \* float lux of the current cycle (line 92)
    topico_completo, \* char topico_completo[128]
    payload_lux,     \* char payload_lux[20]
    boot,            \* calls made during bring-up, in order (polls and sleeps are counted)
    usbSleeps,       \* sleep_ms(100) calls of the console wait (saturating)
    gracePolls,      \* cliente_mqtt_esta_conectado() calls made by the for loop
    graceSleeps,     \* sleep_ms(500) calls
    graceMs,         \* milliseconds of sleep requested by the grace loop
    bootQueries,     \* every cliente_mqtt_esta_conectado() call before the main loop
    graceExit,       \* how the for loop ended: "none", "early", "exhausted"
    graceLog,        \* line printed at 77-81: "none", "success", "warning"
    cyc,             \* calls made in the current cycle, in order
    cycConn,         \* result of the cycle's query: "none", "true", "false"
    logLux,          \* text of the cycle's "Luminosidade" line
    pubTopic,        \* arguments of the last publicar_mensagem_mqtt call
    pubPayload,
    pubLux,          \* the reading the last published payload was formatted from
    cycles,          \* completed cycles (observed up to MaxCycles)
    sleepMs,         \* sleep requested by the observed cycles
    pubCount,        \* publish calls (saturating at 2)
    sleepsSincePub,  \* sleep_ms(1000) calls since the last publish (saturating at 1)
    lastGap,         \* sleepsSincePub at the moment of the last publish
    streak,          \* consecutive disconnected cycles so far (observed up to MaxCycles)
    streakRestarts,  \* iniciar_mqtt_cliente() calls made in that streak
    radioRc,         \* result of cyw43_arch_init(), 0 before the call
    wifiRc           \* result of cyw43_arch_wifi_connect_timeout_ms(), 0 before the call

vars == << pc, status, i, usbAttached, mqtt, handshake, lux, topico_completo, payload_lux,
           boot, usbSleeps, gracePolls, graceSleeps, graceMs, bootQueries,
           graceExit, graceLog, cyc, cycConn, logLux, pubTopic, pubPayload, pubLux, cycles,
           sleepMs, pubCount, sleepsSincePub, lastGap, streak, streakRestarts,
           radioRc, wifiRc >>

----------------------------------------------------------------------------
(* Bounds of the model *)

\* cycles of the main loop whose totals are recorded; the loop itself never stops
MaxCycles == 3

\* sleeps of the console wait that are counted; the wait itself is unbounded
MaxUsbWait == 2

----------------------------------------------------------------------------
(* Program constants *)

GraceAttempts == 20
GraceDelayMs == 500
CycleDelayMs == 1000
UsbDelayMs == 100
TopicBufSize == 128
PayloadBufSize == 20

\* configura_geral.h is not part of the sources: a device id and a topic suffix
DEVICE_ID == << "b", "i", "t", "d", "o", "g", "l", "a", "b" >>
TOPICO_PUBLICACAO_LUZ == << "l", "u", "z" >>

----------------------------------------------------------------------------
(* Values of type float: (-1)^neg * m * 2^e for kind "fin", with m < 2^24,  *)
(* or a NaN or an infinity.                                                *)

Float(neg, m, e) == [kind |-> "fin", neg |-> neg, m |-> m, e |-> e]
NaN == [kind |-> "nan", neg |-> FALSE, m |-> 0, e |-> 0]
\* a NaN with the sign bit set, which %f renders with its sign ("-nan")
NegNaN == [kind |-> "nan", neg |-> TRUE, m |-> 0, e |-> 0]
Inf == [kind |-> "inf", neg |-> FALSE, m |-> 0, e |-> 0]

\* float lux before bh1750_ler_lux() has assigned it in the cycle
NoLux == [kind |-> "unset", neg |-> FALSE, m |-> 0, e |-> 0]

\* bh1750.c is not part of the sources: the readings the driver may hand over.
\* 305.0, 0.5, 0.125, 1023/1024, 2^53, -2^53, a NaN and a NaN with the sign
\* bit set
LuxValues ==
    { Float(FALSE, 305, 0), Float(FALSE, 1, -1), Float(FALSE, 1, -3),
      Float(FALSE, 1023, -10), Float(FALSE, 1, 53), Float(TRUE, 1, 53),
      NaN, NegNaN }

----------------------------------------------------------------------------
(* printf's %.2f and snprintf's truncation, on strings held as sequences   *)
(* of characters.                                                          *)

Min(a, b) == IF a < b THEN a ELSE b

DigitChars == << "0", "1", "2", "3", "4", "5", "6", "7", "8", "9" >>

IsDigit(c) == \E d \in 1..10 : DigitChars[d] = c

RECURSIVE Pow2(_)
Pow2(k) == IF k = 0 THEN 1 ELSE 2 * Pow2(k - 1)

\* decimal digits of n >= 0, most significant first
RECURSIVE IntToDigits(_)
IntToDigits(n) ==
    IF n < 10 THEN << n >> ELSE IntToDigits(n \div 10) \o << n % 10 >>

\* An integer too large for a machine word is held as limbs in base 10^4,
\* least significant first.
LimbBase == 10000

\* ls * f + c for a factor f <= 1024
RECURSIVE MulCarry(_, _, _)
MulCarry(ls, f, c) ==
    IF ls = << >> THEN (IF c = 0 THEN << >> ELSE << c >>)
    ELSE LET x == Head(ls) * f + c
         IN  << x % LimbBase >> \o MulCarry(Tail(ls), f, x \div LimbBase)

\* ls * 2^k, ten doublings at a time
RECURSIVE TimesPow2(_, _)
TimesPow2(ls, k) ==
    IF k = 0 THEN ls
    ELSE IF k >= 10 THEN TimesPow2(MulCarry(ls, 1024, 0), k - 10)
    ELSE MulCarry(ls, Pow2(k), 0)

RECURSIVE ToLimbs(_)
ToLimbs(n) ==
    IF n < LimbBase THEN << n >> ELSE << n % LimbBase >> \o ToLimbs(n \div LimbBase)

Pad4(x) == << x \div 1000, (x \div 100) % 10, (x \div 10) % 10, x % 10 >>

\* decimal digits of the limbs ls, most significant first, no leading zeros
RECURSIVE LimbsToDigits(_)
LimbsToDigits(ls) ==
    IF Len(ls) = 1 THEN IntToDigits(ls[1])
    ELSE LimbsToDigits(Tail(ls)) \o Pad4(Head(ls))

\* n / d rounded to the nearest integer, ties to even
RoundHalfEven(n, d) ==
    LET q == n \div d
        r == n % d
    IN  IF 2 * r > d \/ (2 * r = d /\ q % 2 = 1) THEN q + 1 ELSE q

DigitsToChars(ds) == [j \in 1..Len(ds) |-> DigitChars[ds[j] + 1]]

\* the characters "%.2f" produces for v, before any truncation
Render2f(v) ==
    IF v.kind = "nan"
    THEN (IF v.neg THEN << "-" >> ELSE << >>) \o << "n", "a", "n" >>
    ELSE IF v.kind = "inf"
    THEN (IF v.neg THEN << "-" >> ELSE << >>) \o << "i", "n", "f" >>
    ELSE LET k == IF v.e < 0 THEN 0 - v.e ELSE 0
             whole == v.m \div Pow2(k)
             h0 == RoundHalfEven((v.m % Pow2(k)) * 100, Pow2(k))
             carry == IF h0 = 100 THEN 1 ELSE 0
             h == IF h0 = 100 THEN 0 ELSE h0
             ip == IF v.e >= 0 THEN LimbsToDigits(TimesPow2(ToLimbs(v.m), v.e))
                   ELSE IntToDigits(whole + carry)
         IN  (IF v.neg THEN << "-" >> ELSE << >>)
             \o DigitsToChars(ip) \o << "." >>
             \o DigitsToChars(<< h \div 10, h % 10 >>)

\* the renderings of the readings of the driver, computed once
Fmt2fTable == { << v, Render2f(v) >> : v \in LuxValues }

Fmt2f(v) == (CHOOSE p \in Fmt2fTable : p[1] = v)[2]

\* snprintf(buf, size, ...): at most size - 1 characters are stored
Snprintf(size, s) == SubSeq(s, 1, Min(Len(s), size - 1))

\* a format string without the separator
FormatTopic_NoSeparator == Snprintf(TopicBufSize, DEVICE_ID \o TOPICO_PUBLICACAO_LUZ)

\* snprintf(topico_completo, sizeof(topico_completo), "%s/%s", ...), line 96
FormatTopic == Snprintf(TopicBufSize, DEVICE_ID \o << "/" >> \o TOPICO_PUBLICACAO_LUZ)

\* snprintf(payload_lux, sizeof(payload_lux), "%.2f", lux), line 97
FormatPayload(v) == Snprintf(PayloadBufSize, Fmt2f(v))

\* the pattern ^-?\d+\.\d{2}$
MatchesPayloadRe(s) ==
    LET body == IF Len(s) > 0 /\ s[1] = "-" THEN Tail(s) ELSE s
        n == Len(body)
    IN  /\ n >= 4
        /\ body[n - 2] = "."
        /\ \A j \in 1..n : j # n - 2 => IsDigit(body[j])

----------------------------------------------------------------------------
(* The collaborators *)

\* results of cyw43_arch_init() and cyw43_arch_wifi_connect_timeout_ms():
\* 0 on success, an error code otherwise
RcValues == { -2, -1, 0, 1 }

\* a test for negative error codes only
RadioFailed_NegativeOnly(rc) == rc < 0

\* if (cyw43_arch_init()), line 39
RadioFailed(rc) == rc # 0

\* a test for negative error codes only
WifiFailed_NegativeOnly(rc) == rc < 0

\* if (cyw43_arch_wifi_connect_timeout_ms(...)), line 46
WifiFailed(rc) == rc # 0

\* mqtt_lwip.c is not part of the sources: the session is Disconnected,
\* Connecting or Connected, and cliente_mqtt_esta_conectado() reports Connected
IsConnected == mqtt = "Connected"

\* iniciar_mqtt_cliente() called on a session in state s whose handshake is at
\* h: the client is (re)initialized and a new session is attempted, its
\* handshake at the beginning; where the call is idempotent a session that is
\* Connecting or Connected is left as it is. The pairs << state, handshake >>
\* the call may leave.
Restarted(s, h) ==
    { << "Connecting", "idle" >> }
        \cup (IF s = "Disconnected" THEN { } ELSE { << s, h >> })

\* a bound of twice the attempts
GraceBound_Doubled(iv) == iv < 2 * GraceAttempts

\* a bound that is off by one
GraceBound_OffByOne(iv) == iv <= GraceAttempts

\* for (...; i < 20 && !cliente_mqtt_esta_conectado(); ...), line 73: the
\* client is queried only when i < 20
GraceBound(iv) == iv < GraceAttempts

\* a loop that ends
LoopCond_Never == FALSE

\* while (1), line 88
LoopCond == TRUE

\* the two branches exchanged
BranchAfterCheck_Inverted(conn) == IF conn THEN "reconnect" ELSE "read"

\* if (cliente_mqtt_esta_conectado()) ... else ..., lines 90 and 102
BranchAfterCheck(conn) == IF conn THEN "read" ELSE "reconnect"

SteadyPcs == { "loop", "read", "publish", "reconnect", "sleep" }

----------------------------------------------------------------------------

Init ==
    /\ pc = "start"
    /\ status = 0
    /\ i = 0
    /\ usbAttached = FALSE
    /\ mqtt = "Disconnected"
    /\ handshake = "idle"
    /\ lux = NoLux
    /\ topico_completo = << >>
    /\ payload_lux = << >>
    /\ boot = << >>
    /\ usbSleeps = 0
    /\ gracePolls = 0
    /\ graceSleeps = 0
    /\ graceMs = 0
    /\ bootQueries = 0
    /\ graceExit = "none"
    /\ graceLog = "none"
    /\ cyc = << >>
    /\ cycConn = "none"
    /\ logLux = << >>
    /\ pubTopic = << >>
    /\ pubPayload = << >>
    /\ pubLux = NoLux
    /\ cycles = 0
    /\ sleepMs = 0
    /\ pubCount = 0
    /\ sleepsSincePub = 0
    /\ lastGap = 0
    /\ streak = 0
    /\ streakRestarts = 0
    /\ radioRc = 0
    /\ wifiRc = 0

bootVars == << boot, usbSleeps, gracePolls, graceSleeps, graceMs, bootQueries, graceExit,
               graceLog, radioRc, wifiRc >>
cycleVars == << lux, topico_completo, payload_lux, cyc, cycConn, logLux, pubTopic,
                pubPayload, pubLux, cycles, sleepMs, pubCount, sleepsSincePub,
                lastGap, streak, streakRestarts >>

(* Bring-up, lines 25-69 *)

\* stdio_init_all(), line 25
StdioInit ==
    /\ pc = "start"
    /\ boot' = Append(boot, "stdio_init_all")
    /\ pc' = "usb_wait"
    /\ UNCHANGED << status, i, usbAttached, mqtt, handshake, usbSleeps, gracePolls, graceSleeps,
                    graceMs, bootQueries, graceExit, graceLog, radioRc, wifiRc, cycleVars >>

\* a wait that gives up after a number of sleeps and goes on without a console
UsbWait_Bounded ==
    /\ pc = "usb_wait"
    /\ IF usbAttached \/ usbSleeps >= MaxUsbWait
       THEN pc' = "radio_init" /\ UNCHANGED usbSleeps
       ELSE usbSleeps' = Min(usbSleeps + 1, MaxUsbWait) /\ UNCHANGED pc
    /\ UNCHANGED << status, i, usbAttached, mqtt, handshake, boot, gracePolls, graceSleeps,
                    graceMs, bootQueries, graceExit, graceLog, radioRc, wifiRc, cycleVars >>

\* while (!stdio_usb_connected()) sleep_ms(100), lines 29-31
UsbWait ==
    /\ pc = "usb_wait"
    /\ IF usbAttached
       THEN pc' = "radio_init" /\ UNCHANGED usbSleeps
       ELSE usbSleeps' = Min(usbSleeps + 1, MaxUsbWait) /\ UNCHANGED pc
    /\ UNCHANGED << status, i, usbAttached, mqtt, handshake, boot, gracePolls, graceSleeps,
                    graceMs, bootQueries, graceExit, graceLog, radioRc, wifiRc, cycleVars >>

\* if (cyw43_arch_init()) { ...; return -1; }, lines 39-42
RadioInit ==
    /\ pc = "radio_init"
    /\ \E rc \in RcValues :
          /\ radioRc' = rc
          /\ IF RadioFailed(rc)
             THEN pc' = "exit" /\ status' = -1
             ELSE pc' = "sta_mode" /\ UNCHANGED status
    /\ boot' = Append(boot, "cyw43_arch_init")
    /\ UNCHANGED << i, usbAttached, mqtt, handshake, usbSleeps, gracePolls, graceSleeps,
                    graceMs, bootQueries, graceExit, graceLog, wifiRc, cycleVars >>

\* cyw43_arch_enable_sta_mode(), line 43
StaMode ==
    /\ pc = "sta_mode"
    /\ boot' = Append(boot, "cyw43_arch_enable_sta_mode")
    /\ pc' = "wifi_connect"
    /\ UNCHANGED << status, i, usbAttached, mqtt, handshake, usbSleeps, gracePolls, graceSleeps,
                    graceMs, bootQueries, graceExit, graceLog, radioRc, wifiRc, cycleVars >>

\* if (cyw43_arch_wifi_connect_timeout_ms(...)) { ...; return -1; }, lines 46-50
WifiConnect ==
    /\ pc = "wifi_connect"
    /\ \E rc \in RcValues :
          /\ wifiRc' = rc
          /\ IF WifiFailed(rc)
             THEN pc' = "exit" /\ status' = -1
             ELSE pc' = "i2c_init" /\ UNCHANGED status
    /\ boot' = Append(boot, "cyw43_arch_wifi_connect_timeout_ms")
    /\ UNCHANGED << i, usbAttached, mqtt, handshake, usbSleeps, gracePolls, graceSleeps,
                    graceMs, bootQueries, graceExit, graceLog, radioRc, cycleVars >>

\* the bus set up and the sensor left uninitialised
I2cInit_SkipSensor ==
    /\ pc = "i2c_init"
    /\ boot' = boot \o << "i2c_init", "gpio_set_function", "gpio_set_function",
                          "gpio_pull_up", "gpio_pull_up" >>
    /\ pc' = "mqtt_start"
    /\ UNCHANGED << status, i, usbAttached, mqtt, handshake, usbSleeps, gracePolls, graceSleeps,
                    graceMs, bootQueries, graceExit, graceLog, radioRc, wifiRc, cycleVars >>

\* i2c_init, gpio_set_function x 2, gpio_pull_up x 2, lines 54-59
I2cInit ==
    /\ pc = "i2c_init"
    /\ boot' = boot \o << "i2c_init", "gpio_set_function", "gpio_set_function",
                          "gpio_pull_up", "gpio_pull_up" >>
    /\ pc' = "sensor_init"
    /\ UNCHANGED << status, i, usbAttached, mqtt, handshake, usbSleeps, gracePolls, graceSleeps,
                    graceMs, bootQueries, graceExit, graceLog, radioRc, wifiRc, cycleVars >>

\* bh1750_iniciar(), lines 65-66
SensorInit ==
    /\ pc = "sensor_init"
    /\ boot' = Append(boot, "bh1750_iniciar")
    /\ pc' = "mqtt_start"
    /\ UNCHANGED << status, i, usbAttached, mqtt, handshake, usbSleeps, gracePolls, graceSleeps,
                    graceMs, bootQueries, graceExit, graceLog, radioRc, wifiRc, cycleVars >>

\* iniciar_mqtt_cliente(), lines 68-69, and the for loop's int i = 0, line 73
MqttStart ==
    /\ pc = "mqtt_start"
    /\ boot' = Append(boot, "iniciar_mqtt_cliente")
    /\ \E r \in Restarted(mqtt, handshake) : mqtt' = r[1] /\ handshake' = r[2]
    /\ i' = 0
    /\ pc' = "grace"
    /\ UNCHANGED << status, usbAttached, usbSleeps, gracePolls, graceSleeps,
                    graceMs, bootQueries, graceExit, graceLog, radioRc, wifiRc, cycleVars >>

(* Startup grace period, lines 73-81 *)

\* a grace loop that requests a new session after every poll that failed
GraceLoop_Restarts ==
    /\ pc = "grace"
    /\ IF GraceBound(i)
       THEN /\ gracePolls' = gracePolls + 1
            /\ bootQueries' = bootQueries + 1
            /\ IF ~IsConnected
               THEN /\ graceSleeps' = graceSleeps + 1
                    /\ graceMs' = graceMs + GraceDelayMs
                    /\ boot' = Append(boot, "iniciar_mqtt_cliente")
                    /\ \E r \in Restarted(mqtt, handshake) : mqtt' = r[1] /\ handshake' = r[2]
                    /\ pc' = "grace_sleep"
                    /\ UNCHANGED graceExit
               ELSE /\ pc' = "grace_report"
                    /\ graceExit' = "early"
                    /\ UNCHANGED << graceSleeps, graceMs, boot, mqtt, handshake >>
       ELSE /\ pc' = "grace_report"
            /\ graceExit' = "exhausted"
            /\ UNCHANGED << gracePolls, graceSleeps, graceMs, bootQueries, boot,
                            mqtt, handshake >>
    /\ UNCHANGED << status, i, usbAttached, usbSleeps, graceLog, radioRc, wifiRc,
                    cycleVars >>

\* one evaluation of the for loop's condition, i < 20 && !cliente_mqtt_esta_
\* conectado() (line 73); when it holds the body calls sleep_ms(500) (line 74)
\* and main() waits
GraceLoop ==
    /\ pc = "grace"
    /\ IF GraceBound(i)
       THEN /\ gracePolls' = gracePolls + 1
            /\ bootQueries' = bootQueries + 1
            /\ IF ~IsConnected
               THEN /\ graceSleeps' = graceSleeps + 1
                    /\ graceMs' = graceMs + GraceDelayMs
                    /\ pc' = "grace_sleep"
                    /\ UNCHANGED graceExit
               ELSE /\ pc' = "grace_report"
                    /\ graceExit' = "early"
                    /\ UNCHANGED << graceSleeps, graceMs >>
       ELSE /\ pc' = "grace_report"
            /\ graceExit' = "exhausted"
            /\ UNCHANGED << gracePolls, graceSleeps, graceMs, bootQueries >>
    /\ UNCHANGED << status, i, usbAttached, mqtt, handshake, boot, usbSleeps, graceLog, radioRc,
                    wifiRc, cycleVars >>

\* sleep_ms(500) returns and the for loop's i++ runs (lines 73-74); the session
\* may have changed during the wait
GraceSleep ==
    /\ pc = "grace_sleep"
    /\ i' = i + 1
    /\ pc' = "grace"
    /\ UNCHANGED << status, usbAttached, mqtt, handshake, bootVars, cycleVars >>

\* a report that reuses the outcome of the for loop instead of asking again
GraceReport_ByLoopExit ==
    /\ pc = "grace_report"
    /\ bootQueries' = bootQueries
    /\ graceLog' = IF graceExit = "early" THEN "success" ELSE "warning"
    /\ pc' = "loop"
    /\ UNCHANGED << status, i, usbAttached, mqtt, handshake, boot, usbSleeps, gracePolls,
                    graceSleeps, graceMs, graceExit, radioRc, wifiRc, cycleVars >>

\* if (cliente_mqtt_esta_conectado()) printf(success) else printf(warning), 77-81
GraceReport ==
    /\ pc = "grace_report"
    /\ bootQueries' = bootQueries + 1
    /\ graceLog' = IF IsConnected THEN "success" ELSE "warning"
    /\ pc' = "loop"
    /\ UNCHANGED << status, i, usbAttached, mqtt, handshake, boot, usbSleeps, gracePolls,
                    graceSleeps, graceMs, graceExit, radioRc, wifiRc, cycleVars >>

(* Main loop, lines 88-110 *)

\* while (1) { if (cliente_mqtt_esta_conectado()) ..., lines 88-90 and 102;
\* return 0 (line 112) follows the loop
LoopCheck ==
    /\ pc = "loop"
    /\ IF LoopCond
       THEN /\ cyc' = << "cliente_mqtt_esta_conectado" >>
            /\ cycConn' = IF IsConnected THEN "true" ELSE "false"
            /\ pc' = BranchAfterCheck(IsConnected)
            /\ cycles' = Min(cycles + 1, MaxCycles + 1)
            /\ logLux' = << >>
            /\ UNCHANGED status
       ELSE /\ pc' = "exit"
            /\ status' = 0
            /\ UNCHANGED << cyc, cycConn, cycles, logLux >>
    /\ UNCHANGED << i, usbAttached, mqtt, handshake, bootVars, lux, topico_completo, payload_lux,
                    pubTopic, pubPayload, pubLux, sleepMs, pubCount, sleepsSincePub,
                    lastGap, streak, streakRestarts >>

\* float lux = bh1750_ler_lux(); printf("Luminosidade: %.2f Lux\n", lux), 92-93
ReadSensor ==
    /\ pc = "read"
    /\ \E v \in LuxValues : lux' = v /\ logLux' = Fmt2f(v)
    /\ cyc' = Append(cyc, "bh1750_ler_lux")
    /\ pc' = "publish"
    /\ UNCHANGED << status, i, usbAttached, mqtt, handshake, bootVars, topico_completo,
                    payload_lux, cycConn, pubTopic, pubPayload, pubLux, cycles,
                    sleepMs, pubCount, sleepsSincePub, lastGap, streak,
                    streakRestarts >>

\* the two snprintf calls and publicar_mensagem_mqtt(topico_completo, payload_lux),
\* lines 96-100
Publish ==
    /\ pc = "publish"
    /\ topico_completo' = FormatTopic
    /\ payload_lux' = FormatPayload(lux)
    /\ pubTopic' = FormatTopic
    /\ pubPayload' = FormatPayload(lux)
    /\ pubLux' = lux
    /\ cyc' = Append(cyc, "publicar_mensagem_mqtt")
    /\ pubCount' = Min(pubCount + 1, 2)
    /\ lastGap' = sleepsSincePub
    /\ sleepsSincePub' = 0
    /\ pc' = "sleep"
    /\ UNCHANGED << status, i, usbAttached, mqtt, handshake, bootVars, lux, cycConn, logLux,
                    cycles, sleepMs, streak, streakRestarts >>

\* a reconnection that gives up after two attempts in a row
Reconnect_Capped ==
    /\ pc = "reconnect"
    /\ IF streakRestarts < 2
       THEN /\ cyc' = Append(cyc, "iniciar_mqtt_cliente")
            /\ \E r \in Restarted(mqtt, handshake) : mqtt' = r[1] /\ handshake' = r[2]
            /\ streakRestarts' = IF cycles <= MaxCycles THEN streakRestarts + 1
                                 ELSE streakRestarts
       ELSE UNCHANGED << cyc, mqtt, handshake, streakRestarts >>
    /\ pc' = "sleep"
    /\ UNCHANGED << status, i, usbAttached, bootVars, lux, topico_completo,
                    payload_lux, cycConn, logLux, pubTopic, pubPayload, pubLux,
                    cycles, sleepMs, pubCount, sleepsSincePub, lastGap, streak >>

\* a reconnection that starts the next cycle at once (a continue)
Reconnect_NoSleep ==
    /\ pc = "reconnect"
    /\ cyc' = Append(cyc, "iniciar_mqtt_cliente")
    /\ \E r \in Restarted(mqtt, handshake) : mqtt' = r[1] /\ handshake' = r[2]
    /\ streakRestarts' = IF cycles <= MaxCycles THEN streakRestarts + 1
                         ELSE streakRestarts
    /\ pc' = "loop"
    /\ UNCHANGED << status, i, usbAttached, bootVars, lux, topico_completo,
                    payload_lux, cycConn, logLux, pubTopic, pubPayload, pubLux,
                    cycles, sleepMs, pubCount, sleepsSincePub, lastGap, streak >>

\* printf(warning); iniciar_mqtt_cliente(), lines 104-105
Reconnect ==
    /\ pc = "reconnect"
    /\ cyc' = Append(cyc, "iniciar_mqtt_cliente")
    /\ \E r \in Restarted(mqtt, handshake) : mqtt' = r[1] /\ handshake' = r[2]
    /\ streakRestarts' = IF cycles <= MaxCycles THEN streakRestarts + 1
                         ELSE streakRestarts
    /\ pc' = "sleep"
    /\ UNCHANGED << status, i, usbAttached, bootVars, lux, topico_completo,
                    payload_lux, cycConn, logLux, pubTopic, pubPayload, pubLux,
                    cycles, sleepMs, pubCount, sleepsSincePub, lastGap, streak >>

\* sleep_ms(1000), line 109, and the end of the scope of lux
CycleSleep ==
    /\ pc = "sleep"
    /\ cyc' = Append(cyc, "sleep_ms")
    /\ sleepMs' = IF cycles <= MaxCycles THEN sleepMs + CycleDelayMs ELSE sleepMs
    /\ sleepsSincePub' = 1
    /\ streak' = IF cycConn = "true" THEN 0
                 ELSE IF cycles <= MaxCycles THEN streak + 1 ELSE streak
    /\ streakRestarts' = IF cycConn = "true" THEN 0 ELSE streakRestarts
    /\ lux' = NoLux
    /\ pc' = "loop"
    /\ UNCHANGED << status, i, usbAttached, mqtt, handshake, bootVars, topico_completo,
                    payload_lux, cycConn, logLux, pubTopic, pubPayload, pubLux,
                    cycles, pubCount, lastGap >>

\* the steps of main()
Main ==
    \/ StdioInit
    \/ UsbWait
    \/ RadioInit
    \/ StaMode
    \/ WifiConnect
    \/ I2cInit
    \/ SensorInit
    \/ MqttStart
    \/ GraceLoop
    \/ GraceSleep
    \/ GraceReport
    \/ LoopCheck
    \/ ReadSensor
    \/ Publish
    \/ Reconnect
    \/ CycleSleep

(* The environment *)

\* a console endpoint attaches to or detaches from the USB port during the wait
UsbAttach ==
    /\ pc = "usb_wait"
    /\ usbAttached' = ~usbAttached
    /\ UNCHANGED << pc, status, i, mqtt, handshake, bootVars, cycleVars >>

\* the handshake of a requested session begins: the transport connection to
\* the broker is open and the CONNECT packet is on its way
MqttHandshake ==
    /\ mqtt = "Connecting" /\ handshake = "idle"
    /\ handshake' = "opened"
    /\ UNCHANGED << pc, status, i, usbAttached, mqtt, bootVars, cycleVars >>

\* the handshake of a requested session completes: the broker accepted it
MqttConnected ==
    /\ mqtt = "Connecting" /\ handshake = "opened"
    /\ mqtt' = "Connected"
    /\ handshake' = "idle"
    /\ UNCHANGED << pc, status, i, usbAttached, bootVars, cycleVars >>

\* the handshake fails, or an established session is lost
MqttDropped ==
    /\ mqtt \in { "Connecting", "Connected" }
    /\ mqtt' = "Disconnected"
    /\ handshake' = "idle"
    /\ UNCHANGED << pc, status, i, usbAttached, bootVars, cycleVars >>

Env == UsbAttach \/ MqttHandshake \/ MqttConnected \/ MqttDropped

Next == Main \/ Env

Spec == Init /\ [][Next]_vars

\* main() runs on a core of its own: its next step is always eventually taken
FairSpec == Spec /\ WF_vars(Main)

----------------------------------------------------------------------------
(* Helpers of the properties *)

IsPrefix(p, q) == Len(p) <= Len(q) /\ SubSeq(q, 1, Len(p)) = p

Count(name, q) == Cardinality({ j \in 1..Len(q) : q[j] = name })

\* the calls of a cycle whose query returned true, and of one whose query
\* returned false
ConnectedCalls ==
    << "cliente_mqtt_esta_conectado", "bh1750_ler_lux", "publicar_mensagem_mqtt",
       "sleep_ms" >>
DisconnectedCalls ==
    << "cliente_mqtt_esta_conectado", "iniciar_mqtt_cliente", "sleep_ms" >>

\* the calls of a complete bring-up
RadioCalls == << "stdio_init_all", "cyw43_arch_init" >>
WifiCalls == RadioCalls \o << "cyw43_arch_enable_sta_mode",
                              "cyw43_arch_wifi_connect_timeout_ms" >>
BootCalls == WifiCalls \o << "i2c_init", "gpio_set_function", "gpio_set_function",
                             "gpio_pull_up", "gpio_pull_up", "bh1750_iniciar",
                             "iniciar_mqtt_cliente" >>

ExpectedTopic == DEVICE_ID \o << "/" >> \o TOPICO_PUBLICACAO_LUZ

----------------------------------------------------------------------------
(* C1: in a cycle whose single query returned true, the calls are, in this   *)
(* order, the query, one bh1750_ler_lux(), one publicar_mensagem_mqtt() with *)
(* topic DEVICE_ID/TOPICO_PUBLICACAO_LUZ, and the sleep; iniciar_mqtt_cliente *)
(* is not called.                                                            *)
C1_ConnectedCycle ==
    cycConn = "true" =>
        /\ IsPrefix(cyc, ConnectedCalls)
        /\ pc = "sleep" => Len(cyc) = 3 /\ pubTopic = ExpectedTopic
        /\ pc = "loop" => cyc = ConnectedCalls /\ pubTopic = ExpectedTopic

C1_Witness ==
    pc = "loop" /\ cycConn = "true" /\ pubCount = 2 /\ Len(cyc) = 4

(* C2: in a cycle whose query returned false there is no sensor read and no *)
(* publish and exactly one iniciar_mqtt_cliente(); a publish is only ever   *)
(* attempted in a cycle whose query returned true.                          *)
C2_DisconnectedCycle ==
    /\ cycConn = "false" =>
          /\ IsPrefix(cyc, DisconnectedCalls)
          /\ pc = "sleep" => Len(cyc) = 2
          /\ pc = "loop" => cyc = DisconnectedCalls
    /\ pc \in { "read", "publish" } => cycConn = "true"
    /\ Count("publicar_mensagem_mqtt", cyc) > 0 => cycConn = "true"
    /\ cycConn = "none" => pubCount = 0

C2_Witness ==
    pc = "loop" /\ cycConn = "false" /\ cyc = DisconnectedCalls /\ cycles = 2

(* C3: when the network association fails main() returns a non-zero status *)
(* and nothing after the association has run, nor can run.                  *)
C3_WifiFailureAborts ==
    wifiRc # 0 =>
        /\ pc = "exit" /\ status # 0
        /\ boot = WifiCalls
        /\ mqtt = "Disconnected"
        /\ gracePolls = 0 /\ graceSleeps = 0 /\ bootQueries = 0
        /\ cycles = 0 /\ cyc = << >> /\ pubCount = 0
        /\ ~ENABLED Main

C3_Witness == wifiRc = 1 /\ pc = "exit" /\ radioRc = 0

(* C4: when cyw43_arch_init() fails main() returns a non-zero status with   *)
(* no station mode, no association, no bus, sensor or client start.         *)
C4_RadioFailureAborts ==
    radioRc # 0 =>
        /\ pc = "exit" /\ status # 0
        /\ boot = RadioCalls
        /\ wifiRc = 0
        /\ mqtt = "Disconnected"
        /\ gracePolls = 0 /\ bootQueries = 0 /\ cycles = 0 /\ pubCount = 0
        /\ ~ENABLED Main

C4_Witness == radioRc = 1 /\ pc = "exit"

(* C5: the bring-up calls happen in the order radio, station mode,          *)
(* association, bus, sensor, client, each once, each only after the ones    *)
(* before it succeeded; once the main loop runs all of them have happened.  *)
C5_InitOrder ==
    /\ IsPrefix(boot, BootCalls)
    /\ Len(boot) > Len(RadioCalls) => radioRc = 0
    /\ Len(boot) > Len(WifiCalls) => wifiRc = 0
    /\ pc \in SteadyPcs \cup { "grace", "grace_sleep", "grace_report" }
          => boot = BootCalls

C5_Witness == pc = "loop" /\ boot = BootCalls /\ cycles = 1

(* C6, as stated: at most 20 queries of the client are made before the main *)
(* loop, and when the k-th is the first to return true exactly k are made.  *)
C6_Original ==
    pc \in SteadyPcs =>
        /\ bootQueries <= GraceAttempts
        /\ graceExit = "early" => bootQueries = i + 1

(* C6, amended: the for loop makes at most 20 queries and stops at the      *)
(* first that returns true, so k queries when the k-th is the first true    *)
(* one and 20 when none is; line 77 then queries the client once more, so   *)
(* k + 1 queries (at most 21) precede the main loop.                        *)
C6_GracePolls ==
    /\ gracePolls <= GraceAttempts
    /\ graceSleeps = IF pc = "grace_sleep" THEN i + 1 ELSE i
    /\ graceExit = "early" => gracePolls = i + 1 /\ i < GraceAttempts
    /\ graceExit = "exhausted" => gracePolls = GraceAttempts /\ i = GraceAttempts
    /\ pc = "grace_report" => bootQueries = gracePolls /\ graceExit # "none"
    /\ pc \in SteadyPcs => bootQueries = gracePolls + 1 /\ graceExit # "none"

C6_Witness ==
    pc = "loop" /\ graceExit = "early" /\ gracePolls = 3 /\ bootQueries = 4

\* a step taken in the main loop ends in the main loop
StaysInLoop == pc \in SteadyPcs => pc' \in SteadyPcs

(* C7: main() never returns 0: it returns only when the radio or the        *)
(* association failed, with a non-zero status and before any cycle, and a   *)
(* step taken in the main loop stays in the main loop.                      *)
C7_NeverReturnsZero ==
    /\ [](pc = "exit" => /\ status # 0
                         /\ radioRc # 0 \/ wifiRc # 0
                         /\ cycles = 0)
    /\ [][StaysInLoop]_vars

C7_Witness == pc = "loop" /\ cycles = MaxCycles + 1 /\ status = 0

(* C8: a disconnected client is never fatal and the retries are never       *)
(* capped: after any number of consecutive cycles whose query returned      *)
(* false, iniciar_mqtt_cliente() has been called once per such cycle and    *)
(* the loop goes on; if the client never reports connected again, the call  *)
(* is made infinitely often.                                                *)
C8_RetryForever ==
    /\ [](pc = "loop" /\ cycles <= MaxCycles => streakRestarts = streak)
    /\ [](pc = "sleep" /\ cycConn = "false" =>
              cyc = << "cliente_mqtt_esta_conectado", "iniciar_mqtt_cliente" >>)
    /\ [][StaysInLoop]_vars
    /\ (<>(pc \in SteadyPcs) /\ <>[](~IsConnected)) => []<><<Reconnect>>_vars

C8_Witness ==
    pc = "loop" /\ cycles = MaxCycles /\ streak = MaxCycles
    /\ streakRestarts = MaxCycles

(* C9: every cycle makes exactly one query and ends with exactly one        *)
(* sleep_ms(1000), whichever branch it took: N cycles request N x 1000 ms,  *)
(* and two consecutive publishes have a sleep between them.                 *)
C9_Cadence ==
    /\ pc = "loop" /\ cycles <= MaxCycles => sleepMs = cycles * 1000
    /\ pc \in SteadyPcs /\ cycles >= 1 =>
          Count("cliente_mqtt_esta_conectado", cyc) = 1
    /\ pc = "loop" /\ cycles >= 1 =>
          Count("sleep_ms", cyc) = 1 /\ cyc[Len(cyc)] = "sleep_ms"
    /\ pc \in SteadyPcs \ { "loop" } => Count("sleep_ms", cyc) = 0
    /\ pubCount >= 2 => lastGap >= 1

C9_Witness ==
    /\ pc = "loop" /\ cycles = MaxCycles /\ sleepMs = MaxCycles * 1000
    /\ pubCount = 2 /\ streak = 1

(* C10, as stated: whatever bh1750_ler_lux() returned, the published        *)
(* payload is the untruncated "%.2f" rendering of it and matches            *)
(* ^-?\d+\.\d{2}$.                                                          *)
C10_Original ==
    pubCount > 0 => pubPayload = Fmt2f(pubLux) /\ MatchesPayloadRe(pubPayload)

\* the renderings the specification gives as examples, and the readings whose
\* rendering fits the buffer
PayloadExamples ==
    pubCount > 0 =>
        /\ pubLux = Float(FALSE, 305, 0) => pubPayload = << "3", "0", "5", ".", "0", "0" >>
        /\ pubLux = Float(FALSE, 1, -1) => pubPayload = << "0", ".", "5", "0" >>
        /\ pubLux.kind = "fin" /\ Len(Fmt2f(pubLux)) < PayloadBufSize =>
              pubPayload = Fmt2f(pubLux) /\ MatchesPayloadRe(pubPayload)

(* C11: the grace period ends and the main loop is entered whether or not   *)
(* the client ever reported connected: the grace loop sleeps 500 ms at most *)
(* 20 times (10,000 ms at most), and exactly 20 times when every poll       *)
(* returned false.                                                          *)
C11_GraceTerminates ==
    /\ [](/\ graceSleeps <= 20
          /\ graceMs = graceSleeps * 500
          /\ graceMs <= 10000)
    /\ [](graceExit = "exhausted" => graceSleeps = 20 /\ graceMs = 10000)
    /\ (pc \in { "grace", "grace_sleep" }) ~> (pc = "loop")

C11_Witness ==
    /\ pc = "loop" /\ graceExit = "exhausted" /\ graceSleeps = 20
    /\ graceMs = 10000 /\ graceLog = "warning"

\* the broker is reachable from some point on: no session is lost or refused
\* any more, and the handshake of a requested session begins and completes
BrokerReachable ==
    /\ <>[][~MqttDropped]_vars
    /\ WF_vars(MqttHandshake)
    /\ WF_vars(MqttConnected)

\* a cycle whose query returned false, and a cycle that queried true, read the
\* sensor and published
FalseCycle == pc \in SteadyPcs /\ cycConn = "false"
PublishedCycle ==
    /\ pc = "sleep" /\ cycConn = "true"
    /\ cyc = << "cliente_mqtt_esta_conectado", "bh1750_ler_lux",
                "publicar_mensagem_mqtt" >>

TearsDown ==
    /\ pc = "reconnect" /\ pc' = "sleep"
    /\ mqtt # "Disconnected"
    /\ << mqtt', handshake' >> # << mqtt, handshake >>

\* what the code keeps of it: the recovery follows when, from some point on,
\* no restart replaces a session that is Connecting or Connected
RecoversUnlessTornDown ==
    (BrokerReachable /\ <>[][~TearsDown]_vars) => (FalseCycle ~> PublishedCycle)

(* C13 as stated: the line logged after the grace loop agrees with how the  *)
(* loop ended, success exactly when a poll returned true and warning        *)
(* exactly when all 20 polls returned false.                                *)
C13_Original ==
    graceLog # "none" =>
        /\ (graceLog = "success") <=> (graceExit = "early")
        /\ (graceLog = "warning") <=> (graceExit = "exhausted" /\ gracePolls = 20)

\* the step that logs the outcome of the grace period
C13_ReportStep ==
    pc = "grace_report" /\ pc' = "loop" =>
        graceLog' = IF mqtt = "Connected" THEN "success" ELSE "warning"

(* C13, amended: exactly one line is logged after the grace loop and before *)
(* the main loop, and it is decided by a query of its own made after the    *)
(* loop: success exactly when the session is connected at that query,       *)
(* warning otherwise, however the loop ended.                               *)
C13_LogFollowsQuery ==
    /\ [](pc \in SteadyPcs <=> graceLog # "none")
    /\ [](pc = "grace_report" => graceExit \in { "early", "exhausted" })
    /\ [][C13_ReportStep]_vars
    /\ [][graceLog # "none" => graceLog' = graceLog]_vars

C13_Witness ==
    /\ pc = "loop" /\ cycles = 0
    /\ graceExit = "early" /\ gracePolls < 20 /\ graceLog = "warning"

(* C14, as stated: in a cycle that published, the calls were the query, the *)
(* read and the publish in this order, the payload was formatted from the   *)
(* value read in this cycle, and the payload equals the text of the value   *)
(* logged in this cycle's reading line.                                     *)
C14_Original ==
    pc = "sleep" /\ cycConn = "true" =>
        /\ cyc = << "cliente_mqtt_esta_conectado", "bh1750_ler_lux",
                    "publicar_mensagem_mqtt" >>
        /\ lux # NoLux /\ pubLux = lux
        /\ logLux = Fmt2f(lux)
        /\ pubPayload = logLux

\* what the code keeps of it: the reading published is the one read and logged
\* in the same cycle, and the payload is the logged text cut to the buffer
FreshReading ==
    pc = "sleep" /\ cycConn = "true" =>
        /\ cyc = << "cliente_mqtt_esta_conectado", "bh1750_ler_lux",
                    "publicar_mensagem_mqtt" >>
        /\ lux # NoLux /\ pubLux = lux
        /\ logLux = Fmt2f(lux)
        /\ pubPayload = Snprintf(PayloadBufSize, logLux)
        /\ Len(logLux) < PayloadBufSize => pubPayload = logLux

\* nothing but stdio_init_all() has been done
OnlyStdioDone ==
    /\ boot = << "stdio_init_all" >>
    /\ mqtt = "Disconnected" /\ status = 0
    /\ bootQueries = 0 /\ graceLog = "none"
    /\ cyc = << >> /\ cycles = 0 /\ pubCount = 0 /\ lux = NoLux

\* a step of the wait with no console attached: one more sleep, and the wait
\* goes on whatever the number of sleeps so far
C15_WaitStep ==
    pc = "usb_wait" /\ ~usbAttached =>
        /\ pc' = "usb_wait"
        /\ usbAttached' = usbAttached => usbSleeps' = Min(usbSleeps + 1, MaxUsbWait)
        /\ boot' = boot /\ mqtt' = mqtt /\ cyc' = cyc

\* the wait is left only on a poll that returned true, for the radio
C15_LeaveStep ==
    pc = "usb_wait" /\ pc' # "usb_wait" => usbAttached /\ pc' = "radio_init"

(* C15: until a console endpoint is attached nothing happens but the poll   *)
(* of stdio_usb_connected() and sleeps of 100 ms, with no bound on their    *)
(* number; the radio and every later step come only after a poll returned   *)
(* true, and while the endpoint stays away the program stays in the wait,   *)
(* with no initialization, publish or restart.                              *)
C15_WaitsForConsole ==
    /\ [](pc = "usb_wait" => OnlyStdioDone)
    /\ [](Len(boot) > 1 => pc # "usb_wait" /\ pc # "start")
    /\ [][C15_WaitStep]_vars
    /\ [][C15_LeaveStep]_vars
    /\ []~usbAttached => [](pc \in { "start", "usb_wait" } /\ Len(boot) <= 1)

C15_Witness ==
    /\ pc = "usb_wait" /\ ~usbAttached /\ usbSleeps = MaxUsbWait
    /\ OnlyStdioDone

\* between iniciar_mqtt_cliente() of line 68 and the first cycle of the main loop
InGrace ==
    pc \in { "grace", "grace_sleep", "grace_report" } \/ (pc = "loop" /\ cycles = 0)

(* C16: during startup the client is started exactly once, as the last call *)
(* of the bring-up and before the first poll of the grace loop; from there  *)
(* to the first cycle of the main loop only connectivity queries and sleeps *)
(* of 500 ms happen: no sensor read, no publish and no restart, also when   *)
(* all 20 polls returned false.                                             *)
C16_GraceOnlyPolls ==
    /\ InGrace =>
          /\ boot = BootCalls
          /\ Count("iniciar_mqtt_cliente", boot) = 1
          /\ boot[Len(boot)] = "iniciar_mqtt_cliente"
          /\ cyc = << >> /\ logLux = << >> /\ lux = NoLux
          /\ pubCount = 0 /\ pubPayload = << >> /\ streakRestarts = 0
          /\ bootQueries = gracePolls + (IF graceLog = "none" THEN 0 ELSE 1)
          /\ graceSleeps <= gracePolls /\ graceMs = graceSleeps * 500
    /\ Count("iniciar_mqtt_cliente", boot) = 0 => gracePolls = 0 /\ bootQueries = 0
    /\ pc \in SteadyPcs => Count("iniciar_mqtt_cliente", boot) = 1

C16_Witness ==
    /\ pc = "loop" /\ cycles = 0
    /\ graceExit = "exhausted" /\ gracePolls = 20 /\ graceSleeps = 20
    /\ boot = BootCalls /\ pubCount = 0

====
